---- MODULE Spec2Model ----
(***************************************************************************)
(* Model of backoff.py: the wait generators expo, fibo and constant, the   *)
(* handler-list builder _handlers, and the retry loops of the decorators   *)
(* on_predicate and on_exception.                                          *)
(*                                                                         *)
(* One configured decorator wraps one target.  Each call of the wrapped    *)
(* function (retry) is a process with its own locals (tries, wait, ret,    *)
(* seconds and the caught exception); it is advanced one interaction with  *)
(* the outside at a time: an invocation of the target, of one handler, or  *)
(* of time.sleep.  Everything a call does to the outside is appended to    *)
(* its log, in order.                                                      *)
(*                                                                         *)
(* Python's None is the empty sequence and a non-None value x is <<x>>.    *)
(* Delays are integers in an abstract time unit.                           *)
(***************************************************************************)
EXTENDS Integers, Sequences, FiniteSets

(* ------------------------------ bounds -------------------------------- *)

\* largest finite max_tries a decorator is configured with
MaxTries == 3

\* invocations of the target after which a call is no longer followed
MaxAttempts == 4

\* largest offset the nondeterministic jitter callable returns
MaxJitter == 1

\* values taken from a stand-alone generator (GenSpec)
MaxYield == 7

\* largest max_value a stand-alone generator is created with (GenSpec)
MaxCap == 9

(* ------------------------------ values -------------------------------- *)

None == <<>>

Some(x) == <<x>>

\* keyword argument with a default: the def-line default applies when absent
Default(opt, d) == IF opt = None THEN d ELSE opt[1]

\* the two calls of the wrapped function that are followed
Calls == {1, 2}

\* results the target can return: 0 is falsy, 1 is truthy
Values == {0, 1}

\* exception classes the target can raise
Kinds == {"E1", "E2"}

\* what one invocation of the target does
TargetOutcomes ==
  [tag : {"ret"}, v : Values, kind : {""}] \cup [tag : {"raise"}, v : {0}, kind : Kinds]

\* Python's integer power for a non-negative exponent (0 ** 0 is 1)
RECURSIVE Pow(_, _)
Pow(b, n) == IF n = 0 THEN 1 ELSE b * Pow(b, n - 1)

(* --------------------------- wait generators -------------------------- *)

\* A generator object: its arguments and the locals of its frame.

DefaultBase == 2

DefaultInterval == 1

expo(base, max_value) ==
  [kind |-> "expo", base |-> base, max_value |-> max_value, interval |-> 0,
   n |-> 0, a |-> 1, b |-> 1]

fibo(max_value) ==
  [kind |-> "fibo", base |-> 0, max_value |-> max_value, interval |-> 0,
   n |-> 0, a |-> 1, b |-> 1]

constant(interval) ==
  [kind |-> "constant", base |-> 0, max_value |-> None, interval |-> interval,
   n |-> 0, a |-> 1, b |-> 1]

\* the mutant of expo_next: the capped branch yields the term, not the cap
expo_next_nocap(g) ==
  LET a == Pow(g.base, g.n)
  IN  IF g.max_value = None \/ a < g.max_value[1]
        THEN [value |-> a, gen |-> [g EXCEPT !.n = @ + 1]]
        ELSE [value |-> a, gen |-> g]

\* the mutant of expo_next: n is not advanced after a yield
expo_next_stuck(g) ==
  LET a == Pow(g.base, g.n)
  IN  IF g.max_value = None \/ a < g.max_value[1]
        THEN [value |-> a, gen |-> g]
        ELSE [value |-> g.max_value[1], gen |-> g]

\* one next() on an expo generator: the value yielded and the frame after
expo_next(g) ==
  LET a == Pow(g.base, g.n)
  IN  IF g.max_value = None \/ a < g.max_value[1]
        THEN [value |-> a, gen |-> [g EXCEPT !.n = @ + 1]]
        ELSE [value |-> g.max_value[1], gen |-> g]

\* the mutant of fibo_next: a = b, then b = a + b, one after the other
fibo_next_seq(g) ==
  IF g.max_value = None \/ g.a < g.max_value[1]
    THEN [value |-> g.a, gen |-> [g EXCEPT !.a = g.b, !.b = g.b + g.b]]
    ELSE [value |-> g.max_value[1], gen |-> g]

\* one next() on a fibo generator
fibo_next(g) ==
  IF g.max_value = None \/ g.a < g.max_value[1]
    THEN [value |-> g.a, gen |-> [g EXCEPT !.a = g.b, !.b = g.a + g.b]]
    ELSE [value |-> g.max_value[1], gen |-> g]

\* one next() on a constant generator
constant_next(g) == [value |-> g.interval, gen |-> g]

\* next(wait)
next(g) ==
  CASE g.kind = "expo" -> expo_next(g)
    [] g.kind = "fibo" -> fibo_next(g)
    [] g.kind = "constant" -> constant_next(g)

(* ------------------------------ state --------------------------------- *)

VARIABLES
  mode,             \* "on_predicate" or "on_exception": the decorator used
  predicate,        \* on_predicate's predicate: "not_" (default) or "truth"
  exception,        \* on_exception's exception: the set of classes it names
  max_tries,        \* None or Some(n)
  wait_gen,         \* "expo", "fibo" or "constant"
  wait_gen_kwargs,  \* [base, max_value, interval], each None when not passed
  jitter,           \* "zero" (lambda: 0) or "random" (any offset 0..MaxJitter)
  on_success,       \* the caller's handler arguments
  on_backoff,
  on_giveup,
  gens,             \* the generator objects created so far, by identity
  pc,               \* per call: where retry stands
  tries,            \* per call: local tries
  wait,             \* per call: local wait, the identity of a generator
  ret,              \* per call: local ret, [v, id] (id: attempt that returned it)
  exc,              \* per call: the exception being handled, [kind, id]
  seconds,          \* per call: local seconds
  hdlr,             \* per call: position of the for loop over a handler list
  log,              \* per call: what the call did to the outside, in order
  result,           \* per call: what the caller got
  out               \* values taken from a stand-alone generator (GenSpec)

cfgvars ==
  <<mode, predicate, exception, max_tries, wait_gen, wait_gen_kwargs, jitter,
    on_success, on_backoff, on_giveup>>

callvars == <<pc, tries, wait, ret, exc, seconds, hdlr, log, result>>

vars == <<cfgvars, gens, callvars, out>>

(* ------------------------------ handlers ------------------------------ *)

\* A caller's handler argument: None, one callable, or an iterable of them.
NoHandler == [tag |-> "none", fs |-> <<>>]

Callable(f) == [tag |-> "callable", fs |-> <<f>>]

Iterable(fs) == [tag |-> "iter", fs |-> fs]

\* the mutant of _handlers: a caller's handlers replace the default
_handlers_replace(h, default) ==
  IF h.tag = "none" THEN (IF default # None THEN <<default[1]>> ELSE <<>>)
  ELSE IF h.tag = "iter" THEN h.fs
  ELSE <<h.fs[1]>>

_handlers(h, default) ==
  LET defaults == IF default # None THEN <<default[1]>> ELSE <<>>
  IN  IF h.tag = "none" THEN defaults
      ELSE IF h.tag = "iter" THEN defaults \o h.fs
      ELSE defaults \o <<h.fs[1]>>

success_hdlrs == _handlers(on_success, None)

backoff_hdlrs == _handlers(on_backoff, Some("_log_backoff"))

giveup_hdlrs == _handlers(on_giveup, Some("_log_giveup"))

\* the built-in handlers only log; a caller's handler may raise
MayRaise(f) == f \notin {"_log_backoff", "_log_giveup"}

(* ------------------------------ the log ------------------------------- *)

\* ev: "target" (h: "ret" or the class raised, args: <<value>> or <<>>),
\*     "next" (args: <<value yielded>>), "jitter" (args: <<offset>>),
\*     "success", "backoff", "giveup" (h: the handler, args: its arguments,
\*     the invocation descriptor being the call's number),
\*     "raised" (h: the handler that raised, args: <<the class raised>>),
\*     "sleep" (args: <<seconds>>)
Entry(ev, h, args) == [ev |-> ev, h |-> h, args |-> args]

Positions(c, ev) == {i \in 1..Len(log[c]) : log[c][i].ev = ev}

Count(c, ev) == Cardinality(Positions(c, ev))

\* the entries of one kind, in order
RECURSIVE Select(_, _)
Select(s, ev) ==
  IF s = <<>> THEN <<>>
  ELSE IF Head(s).ev = ev THEN <<Head(s)>> \o Select(Tail(s), ev)
  ELSE Select(Tail(s), ev)

Invocations(c) == Count(c, "target")

NoRet == [v |-> 0, id |-> 0]

NoExc == [kind |-> "", id |-> 0]

NoResult == [tag |-> "none", v |-> 0, kind |-> "", id |-> 0]

Returned(r) == [tag |-> "return", v |-> r.v, kind |-> "", id |-> r.id]

\* an exception of the target (id: the attempt that raised it)
Raised(e) == [tag |-> "raise", v |-> 0, kind |-> e.kind, id |-> e.id]

\* an exception of class kind raised by a handler (id 0: by no attempt)
HandlerError(kind) == [tag |-> "raise", v |-> 0, kind |-> kind, id |-> 0]

(* --------------------------- the retry loop --------------------------- *)

\* wait_gen(**wait_gen_kwargs): the frame of a new generator
wait_gen_call ==
  CASE wait_gen = "expo" ->
         expo(Default(wait_gen_kwargs.base, DefaultBase), wait_gen_kwargs.max_value)
    [] wait_gen = "fibo" -> fibo(wait_gen_kwargs.max_value)
    [] wait_gen = "constant" ->
         constant(Default(wait_gen_kwargs.interval, DefaultInterval))

\* the mutant of NewWait: one generator, made once, serves every call
NewWaitShared(heap) ==
  IF heap = <<>> THEN [heap |-> <<wait_gen_call>>, id |-> 1]
  ELSE [heap |-> heap, id |-> 1]

\* wait = wait_gen(**wait_gen_kwargs): a new object, and its identity
NewWait(heap) == [heap |-> Append(heap, wait_gen_call), id |-> Len(heap) + 1]

\* the mutant of InitTries: the first attempt is counted before it is made
InitTriesOne == 0 + 1

\* tries = 0
InitTries == 0

\* predicate(ret)
Predicate(v) ==
  CASE predicate = "not_" -> v = 0
    [] predicate = "truth" -> v # 0

\* the mutant of Matches: except Exception
MatchesAny(kind) == TRUE

\* except exception:
Matches(kind) == kind \in exception

\* the mutant of GiveUp: gives up only once max_tries is exceeded
GiveUpAfter(t) == max_tries # None /\ t > max_tries[1]

\* the mutant of GiveUp: the test for None is the wrong way round
GiveUpInverted(t) == max_tries = None \/ t = max_tries[1]

\* max_tries is not None and tries == max_tries
GiveUp(t) == max_tries # None /\ t = max_tries[1]

\* the values jitter() can return
JitterValues == IF jitter = "zero" THEN {0} ELSE 0..MaxJitter

\* the mutant of Delay: the offset is left out
DelayNoJitter(value, j) == value

\* seconds = next(wait) + jitter()
Delay(value, j) == value + j

\* the log of call c with entries es appended
Logged(c, es) == [log EXCEPT ![c] = @ \o es]

\* retry is entered: invoc, tries = 0, wait = wait_gen(**wait_gen_kwargs)
Enter(c) ==
  /\ pc[c] = "idle"
  /\ LET w == NewWait(gens)
     IN  /\ gens' = w.heap
         /\ wait' = [wait EXCEPT ![c] = w.id]
  /\ tries' = [tries EXCEPT ![c] = InitTries]
  /\ pc' = [pc EXCEPT ![c] = "attempt"]
  /\ UNCHANGED <<cfgvars, ret, exc, seconds, hdlr, log, result, out>>

\* the mutant of Failed: the next delay is taken from the generator before the
\* giveup test
FailedEager(c, es) ==
  LET t == tries[c] + 1
      nx == next(gens[wait[c]])
  IN  /\ tries' = [tries EXCEPT ![c] = t]
      /\ hdlr' = [hdlr EXCEPT ![c] = 1]
      /\ gens' = [gens EXCEPT ![wait[c]] = nx.gen]
      /\ IF GiveUp(t)
           THEN /\ pc' = [pc EXCEPT ![c] = "giveup"]
                /\ log' = Logged(c, es \o <<Entry("next", "", <<nx.value>>)>>)
                /\ UNCHANGED seconds
           ELSE \E j \in JitterValues :
                  /\ seconds' = [seconds EXCEPT ![c] = Delay(nx.value, j)]
                  /\ log' = Logged(c, es \o <<Entry("next", "", <<nx.value>>),
                                             Entry("jitter", "", <<j>>)>>)
                  /\ pc' = [pc EXCEPT ![c] = "backoff"]

\* the attempt failed (es: what the attempt added to the log): tries += 1, then
\* either the giveup handlers are due or seconds is computed and the backoff
\* handlers are due
Failed(c, es) ==
  LET t == tries[c] + 1
  IN  /\ tries' = [tries EXCEPT ![c] = t]
      /\ hdlr' = [hdlr EXCEPT ![c] = 1]
      /\ IF GiveUp(t)
           THEN /\ pc' = [pc EXCEPT ![c] = "giveup"]
                /\ log' = Logged(c, es)
                /\ UNCHANGED <<gens, seconds>>
           ELSE \E j \in JitterValues :
                  LET nx == next(gens[wait[c]])
                  IN  /\ gens' = [gens EXCEPT ![wait[c]] = nx.gen]
                      /\ seconds' = [seconds EXCEPT ![c] = Delay(nx.value, j)]
                      /\ log' = Logged(c, es \o <<Entry("next", "", <<nx.value>>),
                                                 Entry("jitter", "", <<j>>)>>)
                      /\ pc' = [pc EXCEPT ![c] = "backoff"]

\* the mutant of Succeeded: the successful attempt is counted in tries too
SucceededCounted(c, es) ==
  /\ pc' = [pc EXCEPT ![c] = "success"]
  /\ hdlr' = [hdlr EXCEPT ![c] = 1]
  /\ log' = Logged(c, es)
  /\ tries' = [tries EXCEPT ![c] = @ + 1]
  /\ UNCHANGED <<gens, seconds>>

\* the attempt succeeded: the success handlers are due
Succeeded(c, es) ==
  /\ pc' = [pc EXCEPT ![c] = "success"]
  /\ hdlr' = [hdlr EXCEPT ![c] = 1]
  /\ log' = Logged(c, es)
  /\ UNCHANGED <<tries, gens, seconds>>

\* an exception leaves retry uncaught
Propagates(c, es, e) ==
  /\ pc' = [pc EXCEPT ![c] = "done"]
  /\ result' = [result EXCEPT ![c] = e]
  /\ log' = Logged(c, es)

\* the mutant of Handler: an exception of a handler is caught and the loop
\* goes on with the next handler
HandlerCaught(c, ev, hs) ==
  /\ pc[c] = ev
  /\ hdlr[c] <= Len(hs)
  /\ LET f == hs[hdlr[c]]
         call == Entry(ev, f, <<c, tries[c]>>)
     IN  \/ log' = Logged(c, <<call>>)
         \/ /\ MayRaise(f)
            /\ \E k \in Kinds : log' = Logged(c, <<call, Entry("raised", f, <<k>>)>>)
  /\ hdlr' = [hdlr EXCEPT ![c] = @ + 1]
  /\ UNCHANGED <<cfgvars, gens, pc, result, tries, wait, ret, exc, seconds, out>>

\* for hdlr in hs: hdlr(invoc, tries) -- one iteration; the handler returns
\* or, if it is a caller's, raises an exception of any class, the classes
\* retry catches from the target included
Handler(c, ev, hs) ==
  /\ pc[c] = ev
  /\ hdlr[c] <= Len(hs)
  /\ LET f == hs[hdlr[c]]
         call == Entry(ev, f, <<c, tries[c]>>)
     IN  \/ /\ log' = Logged(c, <<call>>)
            /\ hdlr' = [hdlr EXCEPT ![c] = @ + 1]
            /\ UNCHANGED <<pc, result>>
         \/ /\ MayRaise(f)
            /\ \E k \in Kinds :
                 Propagates(c, <<call, Entry("raised", f, <<k>>)>>, HandlerError(k))
            /\ UNCHANGED hdlr
  /\ UNCHANGED <<cfgvars, gens, tries, wait, ret, exc, seconds, out>>

\* the mutant of LoopEnd: the loop can be left before its last handler ran
LoopEndEarly(c, ev, hs) == pc[c] = ev /\ hdlr[c] >= Len(hs)

\* the for loop over hs is over
LoopEnd(c, ev, hs) == pc[c] = ev /\ hdlr[c] > Len(hs)

\* time.sleep(seconds), and back to the top of the while loop
Sleep(c) ==
  /\ LoopEnd(c, "backoff", backoff_hdlrs)
  /\ log' = Logged(c, <<Entry("sleep", "", <<seconds[c]>>)>>)
  /\ pc' = [pc EXCEPT ![c] = "attempt"]
  /\ UNCHANGED <<cfgvars, gens, tries, wait, ret, exc, seconds, hdlr, result, out>>

\* return ret
Return(c) ==
  /\ result' = [result EXCEPT ![c] = Returned(ret[c])]
  /\ pc' = [pc EXCEPT ![c] = "done"]
  /\ UNCHANGED <<cfgvars, gens, tries, wait, ret, exc, seconds, hdlr, log, out>>

(* on_predicate's retry *)

on_predicate_enter(c) == mode = "on_predicate" /\ Enter(c)

\* the mutant of on_predicate_attempt: an exception of the target is caught
\* and counted as a failed attempt
on_predicate_attempt_catches(c) ==
  /\ mode = "on_predicate"
  /\ pc[c] = "attempt"
  /\ Invocations(c) < MaxAttempts
  /\ \E o \in TargetOutcomes :
       LET id == Invocations(c) + 1
       IN  \/ /\ o.tag = "ret"
              /\ ret' = [ret EXCEPT ![c] = [v |-> o.v, id |-> id]]
              /\ IF Predicate(o.v)
                   THEN Failed(c, <<Entry("target", "ret", <<o.v>>)>>)
                   ELSE Succeeded(c, <<Entry("target", "ret", <<o.v>>)>>)
              /\ UNCHANGED result
           \/ /\ o.tag = "raise"
              /\ Failed(c, <<Entry("target", o.kind, <<>>)>>)
              /\ UNCHANGED <<ret, result>>
  /\ UNCHANGED <<cfgvars, wait, exc, out>>

\* ret = target(*args, **kwargs); if predicate(ret): ... else: ...
on_predicate_attempt(c) ==
  /\ mode = "on_predicate"
  /\ pc[c] = "attempt"
  /\ Invocations(c) < MaxAttempts
  /\ \E o \in TargetOutcomes :
       LET id == Invocations(c) + 1
       IN  \/ /\ o.tag = "ret"
              /\ ret' = [ret EXCEPT ![c] = [v |-> o.v, id |-> id]]
              /\ IF Predicate(o.v)
                   THEN Failed(c, <<Entry("target", "ret", <<o.v>>)>>)
                   ELSE Succeeded(c, <<Entry("target", "ret", <<o.v>>)>>)
              /\ UNCHANGED result
           \/ /\ o.tag = "raise"
              /\ Propagates(c, <<Entry("target", o.kind, <<>>)>>,
                            Raised([kind |-> o.kind, id |-> id]))
              /\ UNCHANGED <<ret, tries, gens, seconds, hdlr>>
  /\ UNCHANGED <<cfgvars, wait, exc, out>>

on_predicate_giveup(c) == mode = "on_predicate" /\ Handler(c, "giveup", giveup_hdlrs)

\* the mutant of on_predicate_break: giving up raises, as on_exception does
on_predicate_break_raises(c) ==
  /\ mode = "on_predicate"
  /\ LoopEnd(c, "giveup", giveup_hdlrs)
  /\ result' = [result EXCEPT ![c] = [tag |-> "raise", v |-> 0, kind |-> "GiveUp", id |-> 0]]
  /\ pc' = [pc EXCEPT ![c] = "done"]
  /\ UNCHANGED <<cfgvars, gens, tries, wait, ret, exc, seconds, hdlr, log, out>>

\* break, then return ret
on_predicate_break(c) ==
  /\ mode = "on_predicate"
  /\ LoopEnd(c, "giveup", giveup_hdlrs)
  /\ Return(c)

on_predicate_backoff(c) == mode = "on_predicate" /\ Handler(c, "backoff", backoff_hdlrs)

\* time.sleep(seconds); continue
on_predicate_sleep(c) == mode = "on_predicate" /\ Sleep(c)

on_predicate_success(c) == mode = "on_predicate" /\ Handler(c, "success", success_hdlrs)

\* break, then return ret
on_predicate_return(c) ==
  /\ mode = "on_predicate"
  /\ LoopEnd(c, "success", success_hdlrs)
  /\ Return(c)

(* on_exception's retry *)

on_exception_enter(c) == mode = "on_exception" /\ Enter(c)

\* try: ret = target(*args, **kwargs) except exception: ... else: ...
on_exception_attempt(c) ==
  /\ mode = "on_exception"
  /\ pc[c] = "attempt"
  /\ Invocations(c) < MaxAttempts
  /\ \E o \in TargetOutcomes :
       LET id == Invocations(c) + 1
       IN  \/ /\ o.tag = "ret"
              /\ ret' = [ret EXCEPT ![c] = [v |-> o.v, id |-> id]]
              /\ Succeeded(c, <<Entry("target", "ret", <<o.v>>)>>)
              /\ UNCHANGED <<exc, result>>
           \/ /\ o.tag = "raise"
              /\ Matches(o.kind)
              /\ exc' = [exc EXCEPT ![c] = [kind |-> o.kind, id |-> id]]
              /\ Failed(c, <<Entry("target", o.kind, <<>>)>>)
              /\ UNCHANGED <<ret, result>>
           \/ /\ o.tag = "raise"
              /\ ~Matches(o.kind)
              /\ Propagates(c, <<Entry("target", o.kind, <<>>)>>,
                            Raised([kind |-> o.kind, id |-> id]))
              /\ UNCHANGED <<ret, exc, tries, gens, seconds, hdlr>>
  /\ UNCHANGED <<cfgvars, wait, out>>

on_exception_giveup(c) == mode = "on_exception" /\ Handler(c, "giveup", giveup_hdlrs)

\* the mutant of on_exception_raise: the raise is missing and the loop goes on
on_exception_raise_missing(c) ==
  /\ mode = "on_exception"
  /\ LoopEnd(c, "giveup", giveup_hdlrs)
  /\ pc' = [pc EXCEPT ![c] = "attempt"]
  /\ UNCHANGED <<cfgvars, gens, tries, wait, ret, exc, seconds, hdlr, log, result, out>>

\* raise: the exception being handled is raised again
on_exception_raise(c) ==
  /\ mode = "on_exception"
  /\ LoopEnd(c, "giveup", giveup_hdlrs)
  /\ result' = [result EXCEPT ![c] = Raised(exc[c])]
  /\ pc' = [pc EXCEPT ![c] = "done"]
  /\ UNCHANGED <<cfgvars, gens, tries, wait, ret, exc, seconds, hdlr, log, out>>

on_exception_backoff(c) == mode = "on_exception" /\ Handler(c, "backoff", backoff_hdlrs)

\* time.sleep(seconds), and the while loop goes round
on_exception_sleep(c) == mode = "on_exception" /\ Sleep(c)

on_exception_success(c) == mode = "on_exception" /\ Handler(c, "success", success_hdlrs)

\* return ret
on_exception_return(c) ==
  /\ mode = "on_exception"
  /\ LoopEnd(c, "success", success_hdlrs)
  /\ Return(c)

(* --------------------------- specifications --------------------------- *)

\* the ways a generator is configured in a decorator
WaitConfigs ==
  { [wait_gen |-> "expo",
     wait_gen_kwargs |-> [base |-> None, max_value |-> None, interval |-> None]],
    [wait_gen |-> "expo",
     wait_gen_kwargs |-> [base |-> Some(3), max_value |-> Some(5), interval |-> None]],
    [wait_gen |-> "fibo",
     wait_gen_kwargs |-> [base |-> None, max_value |-> Some(2), interval |-> None]],
    [wait_gen |-> "constant",
     wait_gen_kwargs |-> [base |-> None, max_value |-> None, interval |-> None]] }

\* the ways the three handler arguments are passed
HandlerConfigs ==
  { [on_success |-> NoHandler, on_backoff |-> NoHandler, on_giveup |-> NoHandler],
    [on_success |-> Callable("s1"), on_backoff |-> Callable("b1"),
     on_giveup |-> Iterable(<<"g1", "g2">>)],
    [on_success |-> Iterable(<<"s1", "s2">>), on_backoff |-> Iterable(<<"b1", "b2">>),
     on_giveup |-> Callable("g1")] }

\* the calls of the set active have not begun; the others are never made
InitCalls(active) ==
  /\ pc = [c \in Calls |-> IF c \in active THEN "idle" ELSE "unused"]
  /\ tries = [c \in Calls |-> 0]
  /\ wait = [c \in Calls |-> 0]
  /\ ret = [c \in Calls |-> NoRet]
  /\ exc = [c \in Calls |-> NoExc]
  /\ seconds = [c \in Calls |-> 0]
  /\ hdlr = [c \in Calls |-> 0]
  /\ log = [c \in Calls |-> <<>>]
  /\ result = [c \in Calls |-> NoResult]
  /\ out = <<>>

\* the decorators: the mode with its predicate or exception argument
Decorators ==
  { [mode |-> "on_predicate", predicate |-> "not_", exception |-> {}],
    [mode |-> "on_predicate", predicate |-> "truth", exception |-> {}],
    [mode |-> "on_exception", predicate |-> "not_", exception |-> {"E1"}],
    [mode |-> "on_exception", predicate |-> "not_", exception |-> {"E1", "E2"}] }

\* the generator, the jitter and the handlers a decorator is given: every
\* generator with the nondeterministic jitter and the built-in handlers, and
\* every way of passing handlers with the default generator and no jitter
Setups ==
  { [wait |-> w, jitter |-> "random", hdlrs |-> h] :
      w \in WaitConfigs, h \in {x \in HandlerConfigs : x.on_giveup = NoHandler} }
    \cup
  { [wait |-> w, jitter |-> "zero", hdlrs |-> h] :
      w \in {x \in WaitConfigs : x.wait_gen = "expo" /\ x.wait_gen_kwargs.base = None},
      h \in HandlerConfigs }

\* a decorator is configured and wraps a target; one call of it is followed
Init ==
  /\ \E d \in Decorators :
       mode = d.mode /\ predicate = d.predicate /\ exception = d.exception
  /\ max_tries \in {None} \cup {Some(n) : n \in 0..MaxTries}
  /\ \E s \in Setups :
       /\ wait_gen = s.wait.wait_gen
       /\ wait_gen_kwargs = s.wait.wait_gen_kwargs
       /\ jitter = s.jitter
       /\ on_success = s.hdlrs.on_success
       /\ on_backoff = s.hdlrs.on_backoff
       /\ on_giveup = s.hdlrs.on_giveup
       /\ (jitter = "random" => exception # Kinds)
  /\ gens = <<>>
  /\ InitCalls({1})

Next ==
  \E c \in Calls :
    \/ on_predicate_enter(c)
    \/ on_predicate_attempt(c)
    \/ on_predicate_giveup(c)
    \/ on_predicate_break(c)
    \/ on_predicate_backoff(c)
    \/ on_predicate_sleep(c)
    \/ on_predicate_success(c)
    \/ on_predicate_return(c)
    \/ on_exception_enter(c)
    \/ on_exception_attempt(c)
    \/ on_exception_giveup(c)
    \/ on_exception_raise(c)
    \/ on_exception_backoff(c)
    \/ on_exception_sleep(c)
    \/ on_exception_success(c)
    \/ on_exception_return(c)

Spec == Init /\ [][Next]_vars

\* retry runs on the caller's thread: as long as the target, the handlers and
\* time.sleep return, the call takes its next step
FairSpec == Init /\ [][Next]_vars /\ WF_vars(Next)

(* two calls of the same wrapped function, interleaved in any way *)

ConcInit ==
  /\ mode \in {"on_predicate", "on_exception"}
  /\ predicate = "not_"
  /\ exception = (IF mode = "on_exception" THEN {"E1"} ELSE {})
  /\ max_tries \in {None, Some(2)}
  /\ wait_gen \in {"expo", "fibo"}
  /\ wait_gen_kwargs = [base |-> None, max_value |-> None, interval |-> None]
  /\ jitter = "zero"
  /\ on_success = Callable("s1")
  /\ on_backoff = Callable("b1")
  /\ on_giveup = NoHandler
  /\ gens = <<>>
  /\ InitCalls(Calls)

ConcSpec == ConcInit /\ [][Next]_vars

(* a generator on its own: created with any arguments, then advanced *)

GenBases == {-2, 0, 1, 2, 3}

GenCaps == {None} \cup {Some(m) : m \in -1..MaxCap}

GenInputs ==
  {expo(b, m) : b \in GenBases, m \in GenCaps}
    \cup {fibo(m) : m \in GenCaps}
    \cup {constant(i) : i \in 0..MaxCap}

GenInit ==
  /\ mode = "on_predicate"
  /\ predicate = "not_"
  /\ exception = {}
  /\ max_tries = None
  /\ wait_gen = "constant"
  /\ wait_gen_kwargs = [base |-> None, max_value |-> None, interval |-> None]
  /\ jitter = "zero"
  /\ on_success = NoHandler
  /\ on_backoff = NoHandler
  /\ on_giveup = NoHandler
  /\ InitCalls({})
  /\ \E g \in GenInputs : gens = <<g>>

\* next() on the generator: the value is taken and the frame moves on
Yield(nx) ==
  /\ Len(out) < MaxYield
  /\ out' = Append(out, nx.value)
  /\ gens' = <<nx.gen>>
  /\ UNCHANGED <<cfgvars, callvars>>

expo_yield == gens[1].kind = "expo" /\ Yield(expo_next(gens[1]))

fibo_yield == gens[1].kind = "fibo" /\ Yield(fibo_next(gens[1]))

constant_yield == gens[1].kind = "constant" /\ Yield(constant_next(gens[1]))

GenNext == expo_yield \/ fibo_yield \/ constant_yield

GenSpec == GenInit /\ [][GenNext]_vars

(* ------------------------------- claims ------------------------------- *)

\* the invocations of the target by call c, in order
Targets(c) == Select(log[c], "target")

\* target entry e is a failed attempt: the result satisfies the predicate
\* (on_predicate), the exception raised matches (on_exception)
IsFailure(e) ==
  IF mode = "on_predicate" THEN e.h = "ret" /\ Predicate(e.args[1])
  ELSE e.h # "ret" /\ e.h \in exception

\* target entry e is a success: the result does not satisfy the predicate
\* (on_predicate), the target returned (on_exception)
IsSuccess(e) ==
  IF mode = "on_predicate" THEN e.h = "ret" /\ ~Predicate(e.args[1])
  ELSE e.h = "ret"

\* every attempt call c has made failed
AllFailed(c) == \A i \in 1..Len(Targets(c)) : IsFailure(Targets(c)[i])

\* no handler has raised in call c
NoHandlerRaised(c) == Count(c, "raised") = 0

\* the handlers call c has invoked for event ev, in order
Fired(c, ev) == [i \in 1..Count(c, ev) |-> Select(log[c], ev)[i].h]

\* every handler of event ev invoked so far by call c was given tries = t
AllTries(c, ev, t) == \A i \in Positions(c, ev) : log[c][i].args[2] = t

\* hs repeated k times
RECURSIVE Repeat(_, _)
Repeat(hs, k) == IF k = 0 THEN <<>> ELSE hs \o Repeat(hs, k - 1)

\* C1: on_exception with max_tries = N >= 1, every attempt raising a matching
\* exception and no handler raising: the target is never invoked more than N
\* times, and when the call has ended it was invoked exactly N times, each giveup
\* handler was invoked exactly once (in list order) with tries = N, N-1 backoffs
\* happened (N-1 delays computed, each backoff handler invoked N-1 times), N-1
\* sleeps were taken, no success handler was invoked, and the caller got the
\* exception the N-th attempt raised.
C1_ExceptionExhausted ==
  \A c \in Calls :
    (/\ mode = "on_exception"
     /\ max_tries # None
     /\ max_tries[1] >= 1
     /\ AllFailed(c)
     /\ NoHandlerRaised(c))
    => LET N == max_tries[1]
       IN  /\ Invocations(c) <= N
           /\ pc[c] = "done" =>
                /\ Invocations(c) = N
                /\ Fired(c, "giveup") = giveup_hdlrs
                /\ AllTries(c, "giveup", N)
                /\ Count(c, "next") = N - 1
                /\ Fired(c, "backoff") = Repeat(backoff_hdlrs, N - 1)
                /\ Count(c, "sleep") = N - 1
                /\ Count(c, "success") = 0
                /\ result[c] = Raised([kind |-> Targets(c)[N].h, id |-> N])

\* a call of on_exception with max_tries = MaxTries has given up after MaxTries
\* matching failures, three giveup handlers having run
C1_Witness ==
  /\ mode = "on_exception"
  /\ max_tries = Some(MaxTries)
  /\ pc[1] = "done"
  /\ AllFailed(1)
  /\ NoHandlerRaised(1)
  /\ Invocations(1) = MaxTries
  /\ Len(giveup_hdlrs) = 3
  /\ result[1].tag = "raise"

\* C2: on_predicate with max_tries = N >= 1, every result satisfying the
\* predicate and no handler raising: the target is never invoked more than N
\* times, and when the call has ended it was invoked exactly N times, each giveup
\* handler was invoked exactly once (in list order) with tries = N, N-1 sleeps
\* were taken, no success handler was invoked, and the caller got, as a return
\* value and not as an exception, the result of the N-th invocation.
C2_PredicateExhausted ==
  \A c \in Calls :
    (/\ mode = "on_predicate"
     /\ max_tries # None
     /\ max_tries[1] >= 1
     /\ AllFailed(c)
     /\ NoHandlerRaised(c))
    => LET N == max_tries[1]
       IN  /\ Invocations(c) <= N
           /\ pc[c] = "done" =>
                /\ Invocations(c) = N
                /\ Fired(c, "giveup") = giveup_hdlrs
                /\ AllTries(c, "giveup", N)
                /\ Count(c, "sleep") = N - 1
                /\ Count(c, "success") = 0
                /\ result[c] = Returned([v |-> Targets(c)[N].args[1], id |-> N])

\* a call of on_predicate with a custom predicate and max_tries = MaxTries has
\* returned the truthy result of its last attempt after giving up
C2_Witness ==
  /\ mode = "on_predicate"
  /\ predicate = "truth"
  /\ max_tries = Some(MaxTries)
  /\ pc[1] = "done"
  /\ AllFailed(1)
  /\ NoHandlerRaised(1)
  /\ Invocations(1) = MaxTries
  /\ Len(giveup_hdlrs) = 3
  /\ result[1] = Returned([v |-> 1, id |-> MaxTries])

\* the failed attempts of call c so far
Failures(c) == Cardinality({i \in 1..Len(Targets(c)) : IsFailure(Targets(c)[i])})

\* C3: whatever max_tries (0, 1, 2, ...) is configured, in both modes, tries
\* never exceeds max_tries, and when tries equals max_tries after a failed
\* attempt the call is giving up or has ended: no backoff, sleep or attempt
\* follows.
C3_TriesWithinMaxTries ==
  \A c \in Calls :
    max_tries # None =>
      /\ tries[c] <= max_tries[1]
      /\ (Failures(c) >= 1 /\ tries[c] = max_tries[1]) => pc[c] \in {"giveup", "done"}

\* C4: with a finite max_tries the target is invoked at most max_tries times
\* in a call, whatever its attempts do (so the call, whose every step
\* terminates, ends).
C4_InvocationsWithinMaxTries ==
  \A c \in Calls : max_tries # None => Invocations(c) <= max_tries[1]

\* the entries of the log of call c before position i that are failed attempts
FailuresBefore(c, i) ==
  Cardinality({j \in 1..(i - 1) : log[c][j].ev = "target" /\ IsFailure(log[c][j])})

\* the invocations of the target in the log of call c up to position i
InvocationsUpTo(c, i) == Cardinality({j \in 1..i : log[c][j].ev = "target"})

\* C5: on_exception, an attempt raising an exception that does not match: it is
\* the last thing the call did (no retry, no delay computed, no sleep, no
\* handler invoked), the call has ended, the caller got that very exception,
\* and tries still counts only the failed attempts before it.
C5_NonMatchingPropagates ==
  \A c \in Calls :
    \A i \in Positions(c, "target") :
      (mode = "on_exception" /\ log[c][i].h # "ret" /\ log[c][i].h \notin exception)
      => /\ i = Len(log[c])
         /\ pc[c] = "done"
         /\ result[c] = Raised([kind |-> log[c][i].h, id |-> InvocationsUpTo(c, i)])
         /\ tries[c] = FailuresBefore(c, i)
         /\ i = 1 => Invocations(c) = 1

\* after two matching failures, each followed by a backoff, the third attempt
\* raised an exception that does not match
C5_Witness ==
  /\ mode = "on_exception"
  /\ exception = {"E1"}
  /\ Invocations(1) = 3
  /\ tries[1] = 2
  /\ log[1][Len(log[1])] = Entry("target", "E2", <<>>)
  /\ result[1] = Raised([kind |-> "E2", id |-> 3])

\* C6: in both modes, when the first attempt succeeds: no backoff handler, no
\* giveup handler and no sleep happen, the generator is never advanced (it is
\* still in the state it was created in), jitter is never called, the target is
\* invoked once, every success handler invoked is given tries = 0, and once the
\* call has ended without a handler raising every success handler has been
\* invoked exactly once (in list order) and the caller got the target's result.
C6_FirstAttemptSucceeds ==
  \A c \in Calls :
    (Targets(c) # <<>> /\ IsSuccess(Targets(c)[1]))
    => /\ Invocations(c) = 1
       /\ Count(c, "backoff") = 0
       /\ Count(c, "giveup") = 0
       /\ Count(c, "sleep") = 0
       /\ Count(c, "next") = 0
       /\ Count(c, "jitter") = 0
       /\ gens[wait[c]] = wait_gen_call
       /\ tries[c] = 0
       /\ AllTries(c, "success", 0)
       /\ (pc[c] = "done" /\ NoHandlerRaised(c)) =>
            /\ Fired(c, "success") = success_hdlrs
            /\ result[c] = Returned([v |-> Targets(c)[1].args[1], id |-> 1])

\* a call whose first attempt succeeded has ended, two success handlers having
\* run
C6_Witness ==
  /\ pc[1] = "done"
  /\ Invocations(1) = 1
  /\ IsSuccess(Targets(1)[1])
  /\ Fired(1, "success") = <<"s1", "s2">>
  /\ result[1].tag = "return"

\* the first k values a generator in state g yields
RECURSIVE Values_(_, _)
Values_(g, k) ==
  IF k = 0 THEN <<>> ELSE <<next(g).value>> \o Values_(next(g).gen, k - 1)

\* the values of the entries of kind ev in the log of call c, in order
Args(c, ev) == [i \in 1..Count(c, ev) |-> Select(log[c], ev)[i].args[1]]

\* C7: two calls of the same wrapped function, interleaved in any way: the two
\* calls hold different generator objects; the tries a call's handlers are
\* given is the number of failed attempts of that call before the handler ran;
\* and the base delays a call has taken from its generator are the first values
\* of a newly created generator, whatever the other call did.
C7_CallsIndependent ==
  /\ (pc[1] \notin {"idle", "unused"} /\ pc[2] \notin {"idle", "unused"}) => wait[1] # wait[2]
  /\ \A c \in Calls :
       /\ \A i \in 1..Len(log[c]) :
            log[c][i].ev \in {"success", "backoff", "giveup"}
            => log[c][i].args = <<c, FailuresBefore(c, i)>>
       /\ tries[c] = Failures(c)
       /\ Args(c, "next") = Values_(wait_gen_call, Count(c, "next"))

\* both calls are under way at once, each having failed at least twice and
\* taken two delays from its generator
C7_Witness ==
  /\ pc[1] = "backoff"
  /\ pc[2] = "attempt"
  /\ wait_gen = "expo"
  /\ Args(1, "next") = <<1, 2, 4>>
  /\ Args(2, "next") = <<1, 2>>
  /\ tries[1] = 3
  /\ tries[2] = 2

\* call c has given up
GaveUp(c) == pc[c] = "giveup" \/ Count(c, "giveup") > 0

\* C8: in both modes the k-th sleep of a call lasts the k-th value of the
\* call's generator plus the value the k-th call of jitter returned; jitter is
\* called once per backoff (one backoff per failed attempt that is not the
\* giveup, the first included), each sleep comes after its delay was computed,
\* and with jitter returning 0 the k-th sleep lasts exactly the k-th value of
\* the generator.
C8_PauseIsWaitPlusJitter ==
  \A c \in Calls :
    LET base == Values_(wait_gen_call, Count(c, "next"))
        js == Args(c, "jitter")
        ss == Args(c, "sleep")
    IN  /\ Args(c, "next") = base
        /\ Len(js) = Len(base)
        /\ Len(js) = Failures(c) - (IF GaveUp(c) THEN 1 ELSE 0)
        /\ Len(ss) <= Len(js)
        /\ Len(js) <= Len(ss) + 1
        /\ \A k \in 1..Len(ss) :
             /\ ss[k] = base[k] + js[k]
             /\ jitter = "zero" => ss[k] = base[k]

\* a call has slept three times, for 1 + 1, 3 + 0 and 5 + 1: the values of
\* expo(base=3, max_value=5) with offsets 1, 0, 1
C8_Witness ==
  /\ wait_gen = "expo"
  /\ wait_gen_kwargs.base = Some(3)
  /\ jitter = "random"
  /\ Args(1, "jitter") = <<1, 0, 1>>
  /\ Args(1, "sleep") = <<2, 3, 6>>

\* b to the power n, with the empty product 1
Power(b, n) == IF n = 0 THEN 1 ELSE b ^ n

\* the Fibonacci numbers 1, 1, 2, 3, 5, ... (0-indexed)
RECURSIVE Fib(_)
Fib(i) == IF i < 2 THEN 1 ELSE Fib(i - 1) + Fib(i - 2)

\* the i-th term (0-indexed) of the true sequence of generator g
Term(g, i) == IF g.kind = "expo" THEN Power(g.base, i) ELSE Fib(i)

\* C9: expo and fibo created with a max_value: each value yielded before the
\* first position whose true term reaches or exceeds max_value is the true
\* term, and every value yielded at or after that position is max_value.
C9_CapIsPermanent ==
  LET g == gens[1]
  IN  (g.kind \in {"expo", "fibo"} /\ g.max_value # None) =>
        \A i \in 0..(Len(out) - 1) :
          IF \E j \in 0..i : Term(g, j) >= g.max_value[1]
            THEN out[i + 1] = g.max_value[1]
            ELSE out[i + 1] = Term(g, i)

\* expo(base=-2, max_value=3) has yielded 1, -2, 3, 3: the last value is the
\* cap although the true term there, -8, is below it
C9_Witness ==
  /\ gens[1].kind = "expo"
  /\ gens[1].base = -2
  /\ gens[1].max_value = Some(3)
  /\ Len(out) >= 4
  /\ SubSeq(out, 1, 4) = <<1, -2, 3, 3>>

\* C10: the n-th value (0-indexed) yielded by expo(base=b) without max_value
\* is b^n.
C10_ExpoYieldsPowers ==
  LET g == gens[1]
  IN  (g.kind = "expo" /\ g.max_value = None) =>
        \A i \in 0..(Len(out) - 1) : out[i + 1] = Power(g.base, i)

\* expo(base=2) has yielded 1, 2, 4, 8, 16
C10_Witness ==
  /\ gens[1].kind = "expo"
  /\ gens[1].base = 2
  /\ gens[1].max_value = None
  /\ Len(out) >= 5
  /\ SubSeq(out, 1, 5) = <<1, 2, 4, 8, 16>>

\* C11: fibo without max_value yields 1, 1, 2, 3, 5, 8, 13, ...: the first two
\* values are 1 and each later value is the sum of the two before it.
C11_FiboYieldsFibonacci ==
  LET g == gens[1]
  IN  (g.kind = "fibo" /\ g.max_value = None) =>
        /\ \A i \in 1..Len(out) : i <= 2 => out[i] = 1
        /\ \A i \in 1..(Len(out) - 2) : out[i + 2] = out[i] + out[i + 1]
        /\ \A i \in 1..Len(out) : i <= 7 => out[i] = <<1, 1, 2, 3, 5, 8, 13>>[i]

\* fibo() has yielded 1, 1, 2, 3, 5, 8, 13
C11_Witness ==
  /\ gens[1].kind = "fibo"
  /\ gens[1].max_value = None
  /\ Len(out) >= 7
  /\ SubSeq(out, 1, 7) = <<1, 1, 2, 3, 5, 8, 13>>

\* the handlers of list hs that have run in the handler loop call c is in
Running(c, ev, hs) ==
  IF pc[c] = ev THEN SubSeq(hs, 1, hdlr[c] - 1) ELSE <<>>

\* call c has been through its terminal event ev (all of its handlers ran)
Through(c, ev) == pc[c] = "done" /\ Count(c, ev) > 0

\* C12: the backoff and giveup lists are the built-in handler followed by the
\* caller's handlers in the order given, the success list is the caller's
\* handlers alone; and, as long as no handler raises, the handlers invoked for
\* each event are the whole list, once each, in list order: the backoff list
\* once per backoff, the giveup or success list once.
C12_HandlerLists ==
  /\ backoff_hdlrs = <<"_log_backoff">> \o on_backoff.fs
  /\ giveup_hdlrs = <<"_log_giveup">> \o on_giveup.fs
  /\ success_hdlrs = on_success.fs
  /\ \A c \in Calls :
       NoHandlerRaised(c) =>
         /\ Fired(c, "backoff")
              = Repeat(backoff_hdlrs, Count(c, "sleep")) \o Running(c, "backoff", backoff_hdlrs)
         /\ Fired(c, "giveup")
              = IF Through(c, "giveup") THEN giveup_hdlrs
                ELSE Running(c, "giveup", giveup_hdlrs)
         /\ Fired(c, "success")
              = IF Through(c, "success") THEN success_hdlrs
                ELSE Running(c, "success", success_hdlrs)

\* two backoffs with on_backoff an iterable of two handlers, then the giveup
\* with on_giveup a single callable
C12_Witness ==
  /\ on_backoff = Iterable(<<"b1", "b2">>)
  /\ on_giveup = Callable("g1")
  /\ pc[1] = "done"
  /\ Fired(1, "backoff") = <<"_log_backoff", "b1", "b2", "_log_backoff", "b1", "b2">>
  /\ Fired(1, "giveup") = <<"_log_giveup", "g1">>

\* C13: every backoff and giveup handler is given three arguments (the
\* invocation, tries, and the value or exception that triggered the event),
\* every success handler two (the invocation and tries).
C13_HandlerPayloads ==
  \A c \in Calls :
    \A i \in 1..Len(log[c]) :
      /\ log[c][i].ev \in {"backoff", "giveup"} => Len(log[c][i].args) = 3
      /\ log[c][i].ev = "success" => Len(log[c][i].args) = 2

\* the last invocation of the target by call c
LastTarget(c) == Targets(c)[Len(Targets(c))]

\* with max_tries = None call c never gives up, each failed attempt is followed
\* at once by the computation of a delay, and a call that returned returned
\* the result of a successful last attempt
Unlimited(c) ==
  /\ pc[c] # "giveup"
  /\ Count(c, "giveup") = 0
  /\ \A i \in Positions(c, "target") :
       IsFailure(log[c][i]) => (i < Len(log[c]) /\ log[c][i + 1].ev = "next")
  /\ result[c].tag = "return" =>
       /\ IsSuccess(LastTarget(c))
       /\ result[c] = Returned([v |-> LastTarget(c).args[1], id |-> Invocations(c)])

\* C14: with max_tries = None, in both modes: no giveup handler ever fires, a
\* call returns only the result of a successful attempt, every failed attempt
\* is followed by a backoff and (unless a handler raises) by a further attempt
\* (up to the MaxAttempts attempts that are followed), and a successful attempt
\* is followed (unless a handler raises) by the return of its result.
C14_UnlimitedNeverGivesUp ==
  /\ [](max_tries = None => \A c \in Calls : Unlimited(c))
  /\ \A c \in Calls :
       \A k \in 1..(MaxAttempts - 1) :
         (max_tries = None /\ Invocations(c) = k /\ IsFailure(LastTarget(c)))
           ~> (Invocations(c) = k + 1 \/ ~NoHandlerRaised(c))
  /\ \A c \in Calls :
       (max_tries = None /\ Invocations(c) >= 1 /\ IsSuccess(LastTarget(c)))
         ~> (result[c].tag = "return" \/ ~NoHandlerRaised(c))

\* with max_tries = None a call has returned the result of its last attempt,
\* every attempt before it having failed
C14_Witness ==
  /\ max_tries = None
  /\ Invocations(1) = MaxAttempts
  /\ Failures(1) = MaxAttempts - 1
  /\ Count(1, "sleep") = MaxAttempts - 1
  /\ result[1].tag = "return"

\* generator g after k values were taken from it
RECURSIVE Advance(_, _)
Advance(g, k) == IF k = 0 THEN g ELSE Advance(next(g).gen, k - 1)

\* call c has entered retry
Entered(c) == pc[c] \notin {"idle", "unused"}

\* C15 as claimed: after f failed attempts of a call exactly f values have been
\* taken from the call's generator, the attempt that ends in giveup included.
C15_OneValuePerFailure ==
  \A c \in Calls :
    Entered(c) =>
      /\ Count(c, "next") = Failures(c)
      /\ gens[wait[c]] = Advance(wait_gen_call, Failures(c))

\* C15 as amended: after f failed attempts of a call exactly f values have been
\* taken from the call's generator, except that the failed attempt that ends
\* the call through giveup takes none: a call that gave up has taken f - 1.
C15_OneValuePerBackoff ==
  \A c \in Calls :
    Entered(c) =>
      LET k == Failures(c) - (IF GaveUp(c) THEN 1 ELSE 0)
      IN  /\ Count(c, "next") = k
          /\ gens[wait[c]] = Advance(wait_gen_call, k)

\* a call with max_tries = MaxTries gave up after MaxTries failed attempts,
\* having taken MaxTries - 1 values from its expo generator
C15_Witness ==
  /\ max_tries = Some(MaxTries)
  /\ wait_gen = "expo"
  /\ pc[1] = "done"
  /\ GaveUp(1)
  /\ Failures(1) = MaxTries
  /\ gens[wait[1]].n = MaxTries - 1

\* the tries given to the handlers call c has invoked for event ev, in order
TriesGiven(c, ev) == [i \in 1..Count(c, ev) |-> Select(log[c], ev)[i].args[2]]

\* C16: in both modes, when the last attempt of a call succeeded after k failed
\* attempts (k < max_tries, or max_tries = None) and no handler raised: tries
\* is k, the target was invoked k + 1 times, k delays were computed and k
\* sleeps taken, the backoff handlers were given tries = 1, 2, ..., k in that
\* order (each value once per handler of the list), no giveup handler fired,
\* every success handler invoked was given tries = k, and once the call has
\* ended every success handler has been invoked once and the caller got the
\* result of the successful attempt.
C16_SuccessAfterFailures ==
  \A c \in Calls :
    LET k == Failures(c)
    IN  (/\ Invocations(c) >= 1
         /\ IsSuccess(LastTarget(c))
         /\ NoHandlerRaised(c)
         /\ (max_tries = None \/ k < max_tries[1]))
        => /\ tries[c] = k
           /\ Invocations(c) = k + 1
           /\ Count(c, "next") = k
           /\ Count(c, "sleep") = k
           /\ Count(c, "backoff") = k * Len(backoff_hdlrs)
           /\ \A i \in 1..Count(c, "backoff") :
                TriesGiven(c, "backoff")[i] = ((i - 1) \div Len(backoff_hdlrs)) + 1
           /\ Count(c, "giveup") = 0
           /\ AllTries(c, "success", k)
           /\ pc[c] = "done" =>
                /\ Fired(c, "success") = success_hdlrs
                /\ result[c] = Returned([v |-> LastTarget(c).args[1], id |-> k + 1])

\* a call of on_exception has returned the result of its fourth attempt after
\* three matching failures, three backoff handlers having run each time
C16_Witness ==
  /\ mode = "on_exception"
  /\ pc[1] = "done"
  /\ Failures(1) = 3
  /\ TriesGiven(1, "backoff") = <<1, 1, 1, 2, 2, 2, 3, 3, 3>>
  /\ TriesGiven(1, "success") = <<3, 3>>
  /\ result[1].tag = "return"
  /\ result[1].id = 4

\* the entries of the log of call c from position i on are the invocations of
\* the handlers of list hs for event ev, in list order
HandlersAt(c, i, ev, hs) ==
  /\ i >= 1
  /\ i + Len(hs) - 1 <= Len(log[c])
  /\ \A j \in 1..Len(hs) : log[c][i + j - 1].ev = ev /\ log[c][i + j - 1].h = hs[j]

\* C17: a sleep comes right after the invocations of all backoff handlers, in
\* list order, which come right after the delay was computed (the generator
\* advanced, then jitter called) for the failed attempt before them; the target
\* is invoked again only right after a sleep; and when a call has returned or
\* raised without a handler raising, the last things it did are the invocations
\* of all giveup handlers after the failed last attempt, or of all success
\* handlers after the successful last attempt.
C17_StepOrder ==
  \A c \in Calls :
    LET n == Len(backoff_hdlrs)
        last == Len(log[c])
    IN  /\ \A i \in Positions(c, "sleep") :
             /\ i - n - 3 >= 1
             /\ log[c][i - n - 3].ev = "target"
             /\ IsFailure(log[c][i - n - 3])
             /\ log[c][i - n - 2].ev = "next"
             /\ log[c][i - n - 1].ev = "jitter"
             /\ HandlersAt(c, i - n, "backoff", backoff_hdlrs)
        /\ \A i \in Positions(c, "target") :
             IF i = 1 THEN TRUE ELSE log[c][i - 1].ev = "sleep"
        /\ (result[c].tag # "none" /\ NoHandlerRaised(c) /\ IsFailure(LastTarget(c))) =>
             /\ HandlersAt(c, last - Len(giveup_hdlrs) + 1, "giveup", giveup_hdlrs)
             /\ log[c][last - Len(giveup_hdlrs)].ev = "target"
        /\ (result[c].tag # "none" /\ NoHandlerRaised(c) /\ IsSuccess(LastTarget(c))) =>
             /\ HandlersAt(c, last - Len(success_hdlrs) + 1, "success", success_hdlrs)
             /\ log[c][last - Len(success_hdlrs)].ev = "target"

\* the kinds of the first n entries of the log of call c
Prefix(c, n) == [i \in 1..n |-> <<log[c][i].ev, log[c][i].h>>]

\* a call of on_exception failed, computed a delay, ran three backoff handlers,
\* slept, failed again and has raised after its two giveup handlers
C17_Witness ==
  /\ mode = "on_exception"
  /\ max_tries = Some(2)
  /\ result[1].tag = "raise"
  /\ Len(log[1]) = 10
  /\ Prefix(1, 10) = << <<"target", "E1">>, <<"next", "">>, <<"jitter", "">>,
                        <<"backoff", "_log_backoff">>, <<"backoff", "b1">>,
                        <<"backoff", "b2">>, <<"sleep", "">>, <<"target", "E1">>,
                        <<"giveup", "_log_giveup">>, <<"giveup", "g1">> >>

\* C18: in both modes, when a success, backoff or giveup handler raises, of
\* whatever class: the call has ended and the caller got that exception; the
\* handler's invocation and its raising are the last things the call did, so no
\* later handler of the list, no sleep and no invocation of the target follow;
\* and it happens at most once in a call.
C18_HandlerFailurePropagates ==
  \A c \in Calls :
    \A i \in Positions(c, "raised") :
      /\ i = Len(log[c])
      /\ i > 1
      /\ log[c][i - 1].ev \in {"success", "backoff", "giveup"}
      /\ log[c][i - 1].h = log[c][i].h
      /\ pc[c] = "done"
      /\ result[c] = HandlerError(log[c][i].args[1])
      /\ Count(c, "raised") = 1

\* in a call of on_exception catching E1, the backoff handler b1 raised E1
\* after the first failed attempt: b2 did not run, and the caller got b1's E1
C18_Witness ==
  /\ mode = "on_exception"
  /\ exception = {"E1"}
  /\ backoff_hdlrs = <<"_log_backoff", "b1", "b2">>
  /\ pc[1] = "done"
  /\ Len(log[1]) = 6
  /\ Prefix(1, 6) = << <<"target", "E1">>, <<"next", "">>, <<"jitter", "">>,
                       <<"backoff", "_log_backoff">>, <<"backoff", "b1">>,
                       <<"raised", "b1">> >>
  /\ result[1] = HandlerError("E1")

\* C19: on_predicate, an attempt of the target raising: it is the last thing
\* the call did (no retry, no delay computed, no sleep, no handler invoked),
\* the call has ended, the caller got that very exception, and tries still
\* counts only the failed attempts before it.
C19_PredicateDoesNotIntercept ==
  \A c \in Calls :
    \A i \in Positions(c, "target") :
      (mode = "on_predicate" /\ log[c][i].h # "ret")
      => /\ i = Len(log[c])
         /\ pc[c] = "done"
         /\ result[c] = Raised([kind |-> log[c][i].h, id |-> InvocationsUpTo(c, i)])
         /\ tries[c] = FailuresBefore(c, i)
         /\ Count(c, "sleep") = tries[c]
         /\ Count(c, "success") = 0
         /\ Count(c, "giveup") = 0

\* a call of on_predicate: two falsy results, each followed by a backoff, then
\* the third attempt raised E1, which the caller got
C19_Witness ==
  /\ mode = "on_predicate"
  /\ predicate = "not_"
  /\ Invocations(1) = 3
  /\ tries[1] = 2
  /\ Count(1, "sleep") = 2
  /\ log[1][Len(log[1])] = Entry("target", "E1", <<>>)
  /\ result[1] = Raised([kind |-> "E1", id |-> 3])

\* at most one terminal event in call c: success and giveup handlers never both
\* fire, no handler of either list fires twice, and once a success or giveup
\* handler has fired nothing but handlers of the same event follow (no
\* invocation of the target, no delay, no backoff handler, no sleep)
OneTerminalEvent(c) ==
  /\ Count(c, "success") = 0 \/ Count(c, "giveup") = 0
  /\ Count(c, "success") <= Len(success_hdlrs)
  /\ Fired(c, "success") = SubSeq(success_hdlrs, 1, Count(c, "success"))
  /\ Count(c, "giveup") <= Len(giveup_hdlrs)
  /\ Fired(c, "giveup") = SubSeq(giveup_hdlrs, 1, Count(c, "giveup"))
  /\ \A i \in 1..Len(log[c]) :
       log[c][i].ev \in {"success", "giveup"} =>
         \A j \in (i + 1)..Len(log[c]) : log[c][j].ev \in {log[c][i].ev, "raised"}

\* call c stands between two iterations of its loop, or has ended
AtRest(c) == pc[c] \in {"attempt", "done"}

\* the backoff events of call c all of whose handlers have returned
CompletedBackoffs(c) ==
  Cardinality({i \in Positions(c, "jitter") :
                 /\ HandlersAt(c, i + 1, "backoff", backoff_hdlrs)
                 /\ pc[c] = "backoff" => i + Len(backoff_hdlrs) < Len(log[c])
                 /\ \A j \in Positions(c, "raised") : j # i + Len(backoff_hdlrs) + 1})

\* a backoff handler has raised in call c
BackoffRaised(c) == \E i \in Positions(c, "raised") : log[c][i - 1].ev = "backoff"

\* C20 as claimed, read where a call stands between two iterations of its loop
\* or has ended: at most one terminal event, nothing after it, and the sleeps
\* taken are as many as the completed backoff events, which is tries - 1 if the
\* call gave up and tries otherwise.
C20_PausesMatchTries ==
  \A c \in Calls :
    /\ OneTerminalEvent(c)
    /\ AtRest(c) =>
         /\ Count(c, "sleep") = CompletedBackoffs(c)
         /\ Count(c, "sleep") = tries[c] - (IF GaveUp(c) THEN 1 ELSE 0)

\* C20 as amended: at most one terminal event, nothing after it, and where a
\* call stands between two iterations of its loop or has ended the sleeps taken
\* are as many as the completed backoff events, which is tries - 1 if the call
\* gave up or a backoff handler raised, and tries otherwise.
C20_PausesMatchTriesUnlessAborted ==
  \A c \in Calls :
    /\ OneTerminalEvent(c)
    /\ AtRest(c) =>
         /\ Count(c, "sleep") = CompletedBackoffs(c)
         /\ Count(c, "sleep")
              = tries[c] - (IF GaveUp(c) \/ BackoffRaised(c) THEN 1 ELSE 0)

\* a call ended when the backoff handler b1 raised after the second failed
\* attempt: tries is 2 and one sleep was taken
C20_Witness ==
  /\ pc[1] = "done"
  /\ BackoffRaised(1)
  /\ ~GaveUp(1)
  /\ tries[1] = 2
  /\ Count(1, "sleep") = 1
  /\ CompletedBackoffs(1) = 1

====
